---- MODULE Spec2Model ----
(***************************************************************************)
(* DriftDB room-local database engine: the Database of driftdb/src/db.rs   *)
(* (three weak subscriber lists, the optional replica sink, the dispatch   *)
(* of send_message) on top of the per-key stream Store.                    *)
(*                                                                         *)
(* Every Database operation runs under the single mutex of                 *)
(* Database.inner, so each operation is one atomic action.  The callbacks  *)
(* an operation invokes are recorded, in invocation order, in `trace`.     *)
(***************************************************************************)
EXTENDS Integers, Sequences, FiniteSets, TLC

(* ------------------------------ bounds --------------------------------- *)
\* Largest sequence number a push may assign or a Compact may carry.
MaxSeq == 2
\* Number of connection handles that can exist at once.
MaxConn == 2

Keys == {"foo", "bar"}
Values == {"baz", "def"}
Nonces == {7, 9}
Conns == 1..MaxConn
Seqs == 0..MaxSeq

VARIABLES
    store,                \* DatabaseInner.store: key -> [seq, values]
    connections,          \* DatabaseInner.connections (weak handles)
    debug_connections,    \* DatabaseInner.debug_connections (weak handles)
    replica_connections,  \* DatabaseInner.replica_connections (weak handles)
    replica_callback,     \* DatabaseInner.replica_callback is Some
    alive,                \* connections that still have a strong reference
    kind,                 \* how each handle was created: connect / connect_debug / connect_replica,
                          \* and as what it was dropped
    op,                   \* the operation performed by the last step
    trace,                \* events of the last operation, in program order
    response,             \* value returned by the last send_message
    history,              \* per key: the values appended, while the key has seen only Appends
    room,                 \* the DbRoom that owns the Database: PersistedDb, alarm, POST in flight
    mutex,                \* per caller: the Database method it runs under the Mutex of inner,
                          \* and the callbacks that method has still to invoke
    inbox                 \* per connection: the messages its callback was given, in order

vars == <<store, connections, debug_connections, replica_connections,
          replica_callback, alive, kind, op, trace, response, history, room,
          mutex, inbox>>

(* --------------------------- option values ----------------------------- *)
None == [some |-> FALSE]
Some(x) == [some |-> TRUE, val |-> x]

(* ------------------------------ helpers -------------------------------- *)
Max(a, b) == IF a >= b THEN a ELSE b

Range(s) == {s[i] : i \in 1..Len(s)}

\* Vec::retain with `conn.upgrade().is_some()` as the predicate.
Retain(list) == SelectSeq(list, LAMBDA c : c \in alive)

(* ------------------------------- Store --------------------------------- *)
\* Action of a Push: seq is meaningful for Compact only.
ActionRelay == [type |-> "Relay", seq |-> 0]
ActionAppend == [type |-> "Append", seq |-> 0]
ActionReplace == [type |-> "Replace", seq |-> 0]
ActionCompact(s) == [type |-> "Compact", seq |-> s]
Actions == {ActionRelay, ActionAppend, ActionReplace} \cup {ActionCompact(s) : s \in Seqs}

SequenceValue(s, v) == [seq |-> s, value |-> v]

EmptyStore == [k \in {} |-> 0]

\* Per-key state of a key, the default one when the key is absent.
ValueLog(st, key) ==
    IF key \in DOMAIN st THEN st[key] ELSE [seq |-> 0, values |-> <<>>]

\* Store::convert_to_instruction: the sequence number the push will use and
\* the broadcast it produces; the store itself is not changed.
convert_to_instruction(st, key, value, action) ==
    IF action.type = "Compact"
    THEN [key |-> key, action |-> action, value |-> value,
          seq |-> action.seq, broadcast |-> None]
    ELSE LET next == ValueLog(st, key).seq + 1
         IN  [key |-> key, action |-> action, value |-> value,
              seq |-> next, broadcast |-> Some(SequenceValue(next, value))]

\* StoreInstruction::mutates.
mutates(instruction) == instruction.action.type \in {"Append", "Replace", "Compact"}

\* Variant: an entry of the same seq is kept next to the inserted one.
RECURSIVE InsertBySeq_Duplicate(_, _)
InsertBySeq_Duplicate(values, sv) ==
    IF values = <<>> THEN <<sv>>
    ELSE IF Head(values).seq < sv.seq
         THEN <<Head(values)>> \o InsertBySeq_Duplicate(Tail(values), sv)
         ELSE <<sv>> \o values

\* Insert sv into a stream sorted by seq, substituting an entry of the same seq.
RECURSIVE InsertBySeq(_, _)
InsertBySeq(values, sv) ==
    IF values = <<>> THEN <<sv>>
    ELSE IF Head(values).seq < sv.seq THEN <<Head(values)>> \o InsertBySeq(Tail(values), sv)
    ELSE IF Head(values).seq = sv.seq THEN <<sv>> \o Tail(values)
    ELSE <<sv>> \o values

\* The stream of the key after the instruction.
\* Variant: Replace stores its entry after the ones the stream holds.
ApplyValues_ReplaceAppends(values, instruction) ==
    LET sv == SequenceValue(instruction.seq, instruction.value)
    IN  CASE instruction.action.type = "Relay" -> values
          [] instruction.action.type = "Append" -> Append(values, sv)
          [] instruction.action.type = "Replace" -> Append(values, sv)
          [] instruction.action.type = "Compact" ->
                InsertBySeq(SelectSeq(values, LAMBDA e : e.seq >= instruction.seq), sv)

\* The stream of a key after the instruction.
ApplyValues(values, instruction) ==
    LET sv == SequenceValue(instruction.seq, instruction.value)
    IN  CASE instruction.action.type = "Relay" -> values
          [] instruction.action.type = "Append" -> Append(values, sv)
          [] instruction.action.type = "Replace" -> <<sv>>
          [] instruction.action.type = "Compact" ->
                InsertBySeq(SelectSeq(values, LAMBDA e : e.seq >= instruction.seq), sv)

\* Variant: a Compact leaves the counter as it is.
apply_CompactKeepsCounter(st, instruction) ==
    LET old == ValueLog(st, instruction.key)
        new == [seq |-> IF instruction.action.type = "Compact"
                        THEN old.seq ELSE Max(old.seq, instruction.seq),
                values |-> ApplyValues(old.values, instruction)]
    IN  [k \in DOMAIN st \cup {instruction.key} |->
            IF k = instruction.key THEN new ELSE st[k]]

\* Store::apply: commits the instruction to the per-key state.
apply(st, instruction) ==
    LET old == ValueLog(st, instruction.key)
        new == [seq |-> Max(old.seq, instruction.seq),
                values |-> ApplyValues(old.values, instruction)]
    IN  [k \in DOMAIN st \cup {instruction.key} |->
            IF k = instruction.key THEN new ELSE st[k]]

\* The value Store::apply returns: the number of durable entries of the key.
stream_size(st, key) == Len(ValueLog(st, key).values)

\* Store::get.
get(st, key, since) == SelectSeq(ValueLog(st, key).values, LAMBDA e : e.seq >= since)

\* Store::dump.
dump(st) == [k \in DOMAIN st |-> st[k].values]

(* ------------------------------ messages ------------------------------- *)
MsgPush(key, value, seq) == [type |-> "Push", key |-> key, value |-> value, seq |-> seq]
MsgInit(key, data) == [type |-> "Init", key |-> key, data |-> data]
MsgStreamSize(key, size) == [type |-> "StreamSize", key |-> key, size |-> size]
MsgPong(nonce) == [type |-> "Pong", nonce |-> nonce]
MsgReplicaStore(instruction) ==
    [type |-> "ReplicaInstruction", variant |-> "StoreInstruction", instruction |-> instruction]
MsgReplicaInit(st) ==
    [type |-> "ReplicaInstruction", variant |-> "InitInstruction", store |-> st]

ToPush(key, value, action) == [type |-> "Push", key |-> key, value |-> value, action |-> action]
ToGet(key, seq) == [type |-> "Get", key |-> key, seq |-> seq]
ToPing(nonce) == [type |-> "Ping", nonce |-> nonce]

\* MessageFromDatabase::Error, and the 4xx answer to a body that does not decode.
MsgError == [type |-> "Error", message |-> "Could not decode message"]
HttpError == [type |-> "HttpError"]

(* ------------------------------- events -------------------------------- *)
\* A callback invocation: `group` is the place in the code that made it.
Call(group, conn, msg) == [ev |-> "call", group |-> group, conn |-> conn, msg |-> msg]
EvApply(instruction) == [ev |-> "apply", group |-> "apply", conn |-> 0, msg |-> instruction]
EvReturn(resp) == [ev |-> "return", group |-> "return", conn |-> 0, msg |-> resp]

\* Variant: a handle is called whether or not its connection is alive.
RECURSIVE Dispatch_Dead(_, _, _)
Dispatch_Dead(list, group, msg) ==
    IF list = <<>> THEN <<>>
    ELSE <<Call(group, Head(list), msg)>> \o Dispatch_Dead(Tail(list), group, msg)

\* One callback invocation per live handle of the list, in list order.
RECURSIVE Dispatch(_, _, _)
Dispatch(list, group, msg) ==
    IF list = <<>> THEN <<>>
    ELSE (IF Head(list) \in alive THEN <<Call(group, Head(list), msg)>> ELSE <<>>)
         \o Dispatch(Tail(list), group, msg)

(* ----------------------- DatabaseInner::send_message -------------------- *)
\* Replica subscribers: every live handle of replica_connections gets the
\* applied instruction.
ReplicaStage(instruction) ==
    IF replica_connections # <<>>
    THEN Dispatch(replica_connections, "replica", MsgReplicaStore(instruction))
    ELSE <<>>

\* Variant: debug subscribers get the whole stream after every instruction.
DebugStage_AlwaysInit(st, instruction) ==
    IF debug_connections # <<>>
    THEN Dispatch(debug_connections, "debug",
                  MsgInit(instruction.key, get(st, instruction.key, 0)))
    ELSE <<>>

\* Debug subscribers: the whole stream after a mutating instruction, the
\* broadcast itself otherwise.
DebugStage(st, instruction) ==
    IF debug_connections # <<>>
    THEN IF mutates(instruction)
         THEN Dispatch(debug_connections, "debug",
                       MsgInit(instruction.key, get(st, instruction.key, 0)))
         ELSE IF instruction.broadcast.some
         THEN Dispatch(debug_connections, "debug",
                       MsgPush(instruction.key, instruction.broadcast.val.value,
                               instruction.broadcast.val.seq))
         ELSE <<>>
    ELSE <<>>

\* Variant: the sink gets every instruction that carries a broadcast.
SinkStage_Broadcast(instruction) ==
    IF instruction.broadcast.some /\ replica_callback
    THEN <<Call("sink", 0, instruction)>>
    ELSE <<>>

\* Replica sink: the installed callback gets every mutating instruction.
SinkStage(instruction) ==
    IF mutates(instruction) /\ replica_callback
    THEN <<Call("sink", 0, instruction)>>
    ELSE <<>>

\* Variant: only a mutating instruction is broadcast.
RegularStage_DurableOnly(instruction) ==
    IF instruction.broadcast.some /\ mutates(instruction)
    THEN Dispatch(connections, "regular",
                  MsgPush(instruction.key, instruction.broadcast.val.value,
                          instruction.broadcast.val.seq))
    ELSE <<>>

\* Regular subscribers: every live handle of connections gets the broadcast.
RegularStage(instruction) ==
    IF instruction.broadcast.some
    THEN Dispatch(connections, "regular",
                  MsgPush(instruction.key, instruction.broadcast.val.value,
                          instruction.broadcast.val.seq))
    ELSE <<>>

\* Variant: a stream of a single entry is reported too.
PushResponse_FromOne(key, size) ==
    IF size >= 1 THEN Some(MsgStreamSize(key, size)) ELSE None

\* The value a Push returns.
PushResponse(key, size) ==
    IF size > 1 THEN Some(MsgStreamSize(key, size)) ELSE None

\* The events of one Push, in program order.
PushTrace(st, instruction, resp) ==
    <<EvApply(instruction)>>
    \o ReplicaStage(instruction)
    \o DebugStage(st, instruction)
    \o SinkStage(instruction)
    \o RegularStage(instruction)
    \o <<EvReturn(resp)>>

\* The subscriber lists after one Push: a list is pruned where it is iterated.
ReplicaPruned == IF replica_connections # <<>> THEN Retain(replica_connections)
                 ELSE replica_connections
DebugPruned(instruction) ==
    IF debug_connections # <<>> /\ (mutates(instruction) \/ instruction.broadcast.some)
    THEN Retain(debug_connections) ELSE debug_connections
RegularPruned(instruction) ==
    IF instruction.broadcast.some THEN Retain(connections) ELSE connections

(* --------------------------- history variable -------------------------- *)
NoHistory == [onlyAppends |-> TRUE, appended |-> <<>>, replaced |-> None, raised |-> FALSE]

\* The history of a key after a push: the values appended while nothing but
\* Append was pushed, and the entry the latest push stored if it was a
\* Replace, with the connections that were live at that push, and whether
\* the latest push was a Compact of a seq above the counter.
HistoryAfter(h, counter, instruction, conns) ==
    [onlyAppends |-> h.onlyAppends /\ instruction.action.type = "Append",
     appended    |-> IF h.onlyAppends /\ instruction.action.type = "Append"
                     THEN Append(h.appended, instruction.value)
                     ELSE <<>>,
     replaced    |-> IF instruction.action.type = "Replace"
                     THEN Some([entry  |-> SequenceValue(instruction.seq, instruction.value),
                                before |-> conns])
                     ELSE None,
     raised      |-> instruction.action.type = "Compact" /\ instruction.seq > counter]

(* -------------------------------- DbRoom ------------------------------- *)
\* PersistedDb's serialization of the store: one record per key.
save(st) == {[key |-> k, seq |-> st[k].seq, values |-> st[k].values] : k \in DOMAIN st}

\* The store a cold start builds from the persisted blob.
load(blob) ==
    [k \in {b.key : b \in blob} |->
        LET b == CHOOSE x \in blob : x.key = k
        IN  [seq |-> b.seq, values |-> b.values]]

\* DbRoom::new: no Database in memory, nothing persisted, no alarm set, no
\* POST in flight.
\* A Database the room has released: its store and subscriber lists live on
\* in the clones held by the tasks of the streams attached to it.
NoOrphan == [store |-> EmptyStore, connections |-> <<>>, debug_connections |-> <<>>]

NewRoom ==
    [loaded    |-> FALSE,      \* PersistedDb holds a Database
     persisted |-> save(EmptyStore),
     dirty     |-> FALSE,      \* a mutating instruction since the last snapshot
     alarm     |-> "off",      \* "off", "armed", or "due" once the window has elapsed
     post      |-> 0,          \* handle of the transient connection of the POST in flight
     sent      |-> FALSE,      \* that POST has called send_message
     steps     |-> <<>>,       \* what the last handler did, in program order
     body      |-> None,       \* body of the last HTTP response to POST /send
     orphan    |-> NoOrphan]   \* the released Database the tasks of older streams hold

\* The callers of the Database's methods.
Threads == {"t1", "t2"}

\* A caller that runs no method of the Database, or waits in lock().
Outside == [call |-> "none", conn |-> 0, pending |-> <<>>]

(* ------------------------------- actions ------------------------------- *)
Init ==
    /\ store = EmptyStore
    /\ connections = <<>>
    /\ debug_connections = <<>>
    /\ replica_connections = <<>>
    /\ replica_callback = FALSE
    /\ alive = {}
    /\ kind = [c \in Conns |-> "none"]
    /\ op = [name |-> "new", conn |-> 0, msg |-> None]
    /\ trace = <<>>
    /\ response = None
    /\ history = [k \in Keys |-> NoHistory]
    /\ room = NewRoom
    /\ mutex = [t \in Threads |-> Outside]
    /\ inbox = [c \in Conns |-> <<>>]

\* Variant: the instruction is applied a second time.
Applied_Twice(st, key, value, action) ==
    apply(apply(st, convert_to_instruction(st, key, value, action)),
          convert_to_instruction(st, key, value, action))

\* Variant: only a mutating instruction is applied to the store.
Applied_OnlyMutating(st, key, value, action) ==
    IF mutates(convert_to_instruction(st, key, value, action))
    THEN apply(st, convert_to_instruction(st, key, value, action))
    ELSE st

\* The store after the push was converted and applied.
Applied(st, key, value, action) ==
    apply(st, convert_to_instruction(st, key, value, action))

\* send_message(Push{key, value, action}) through connection c.
Push(c, key, value, action) ==
    /\ c \in alive
    /\ convert_to_instruction(store, key, value, action).seq <= MaxSeq
    /\ store' = Applied(store, key, value, action)
    /\ response' = PushResponse(key, stream_size(store', key))
    /\ trace' = PushTrace(store', convert_to_instruction(store, key, value, action), response')
    /\ replica_connections' = ReplicaPruned
    /\ debug_connections' = DebugPruned(convert_to_instruction(store, key, value, action))
    /\ connections' = RegularPruned(convert_to_instruction(store, key, value, action))
    /\ op' = [name |-> "send_message", conn |-> c, msg |-> ToPush(key, value, action)]
    /\ history' = [history EXCEPT ![key] =
                      HistoryAfter(@, ValueLog(store, key).seq,
                                   convert_to_instruction(store, key, value, action), alive)]
    /\ UNCHANGED <<replica_callback, alive, kind>>

\* Variant: the requested seq is ignored and the whole stream returned.
GetResponse_FromStart(st, key, seq) == Some(MsgInit(key, get(st, key, 0)))

\* The value a Get returns.
GetResponse(st, key, seq) == Some(MsgInit(key, get(st, key, seq)))

\* The value a Ping returns.
PingResponse(nonce) == Some(MsgPong(nonce))

\* send_message(Get{key, seq}) through connection c.
Get(c, key, seq) ==
    LET resp == GetResponse(store, key, seq)
    IN  /\ c \in alive
        /\ response' = resp
        /\ trace' = <<EvReturn(resp)>>
        /\ op' = [name |-> "send_message", conn |-> c, msg |-> ToGet(key, seq)]
        /\ UNCHANGED <<store, connections, debug_connections, replica_connections,
                       replica_callback, alive, kind, history>>

\* send_message(Ping{nonce}) through connection c.
Ping(c, nonce) ==
    LET resp == PingResponse(nonce)
    IN  /\ c \in alive
        /\ response' = resp
        /\ trace' = <<EvReturn(resp)>>
        /\ op' = [name |-> "send_message", conn |-> c, msg |-> ToPing(nonce)]
        /\ UNCHANGED <<store, connections, debug_connections, replica_connections,
                       replica_callback, alive, kind, history>>

\* Handles no list and no owner refers to any more.
Free == Conns \ (alive \cup Range(connections) \cup Range(debug_connections)
                 \cup Range(replica_connections))

\* Arc::new(Connection::new(..)): the handle a connect operation creates.
NewConn == CHOOSE c \in Free : \A d \in Free : c <= d

\* At most n connections are open at once.
Room(n) == Free # {} /\ Cardinality(alive) < n

Created(c, k) ==
    /\ alive' = alive \cup {c}
    /\ kind' = [kind EXCEPT ![c] = k]
    /\ response' = None

\* Database::connect.
Connect(n) ==
    /\ Room(n)
    /\ Created(NewConn, "regular")
    /\ connections' = Append(connections, NewConn)
    /\ trace' = <<>>
    /\ op' = [name |-> "connect", conn |-> NewConn, msg |-> None]
    /\ UNCHANGED <<store, debug_connections, replica_connections, replica_callback,
                   history>>

\* The orders in which the entries of Store::dump can be visited.
Orders(S) == {o \in [1..Cardinality(S) -> S] : \A i, j \in DOMAIN o : i # j => o[i] # o[j]}

\* Variant: connect_debug registers the handle and sends nothing.
ConnectDebug_Silent(n) ==
    /\ Room(n)
    /\ Created(NewConn, "debug")
    /\ trace' = <<>>
    /\ debug_connections' = Append(debug_connections, NewConn)
    /\ op' = [name |-> "connect_debug", conn |-> NewConn, msg |-> None]
    /\ UNCHANGED <<store, connections, replica_connections, replica_callback,
                   history>>

\* Database::connect_debug.
ConnectDebug(n) ==
    /\ Room(n)
    /\ Created(NewConn, "debug")
    /\ \E o \in Orders(DOMAIN dump(store)) :
          trace' = [i \in DOMAIN o |-> Call("register", NewConn, MsgInit(o[i], dump(store)[o[i]]))]
    /\ debug_connections' = Append(debug_connections, NewConn)
    /\ op' = [name |-> "connect_debug", conn |-> NewConn, msg |-> None]
    /\ UNCHANGED <<store, connections, replica_connections, replica_callback,
                   history>>

\* Database::connect_replica.
ConnectReplica(n) ==
    /\ Room(n)
    /\ Created(NewConn, "replica")
    /\ trace' = <<Call("register", NewConn, MsgReplicaInit(store))>>
    /\ debug_connections' = Append(debug_connections, NewConn)
    /\ op' = [name |-> "connect_replica", conn |-> NewConn, msg |-> None]
    /\ UNCHANGED <<store, connections, replica_connections, replica_callback,
                   history>>

\* Database::set_replica_callback.
SetReplicaCallback ==
    /\ replica_callback' = TRUE
    /\ trace' = <<>>
    /\ response' = None
    /\ op' = [name |-> "set_replica_callback", conn |-> 0, msg |-> None]
    /\ UNCHANGED <<store, connections, debug_connections, replica_connections,
                   alive, kind, history>>

\* The owner drops the last strong reference to connection c.
Drop(c) ==
    /\ c \in alive
    /\ alive' = alive \ {c}
    /\ kind' = [kind EXCEPT ![c] = "dropped"]
    /\ trace' = <<>>
    /\ response' = None
    /\ op' = [name |-> "drop", conn |-> c, msg |-> None]
    /\ UNCHANGED <<store, connections, debug_connections, replica_connections,
                   replica_callback, history>>

\* Every operation on every input.
Next ==
    \/ /\ \E c \in Conns, key \in Keys, value \in Values, action \in Actions :
             Push(c, key, value, action)
       /\ UNCHANGED <<room, mutex, inbox>>
    \/ /\ \E c \in Conns, key \in Keys, seq \in Seqs : Get(c, key, seq)
       /\ UNCHANGED <<room, mutex, inbox>>
    \/ /\ \E c \in Conns, nonce \in Nonces : Ping(c, nonce)
       /\ UNCHANGED <<room, mutex, inbox>>
    \/ /\ Connect(MaxConn)
       /\ UNCHANGED <<room, mutex, inbox>>
    \/ /\ ConnectDebug(MaxConn)
       /\ UNCHANGED <<room, mutex, inbox>>
    \/ /\ ConnectReplica(MaxConn)
       /\ UNCHANGED <<room, mutex, inbox>>
    \/ /\ SetReplicaCallback
       /\ UNCHANGED <<room, mutex, inbox>>
    \/ /\ \E c \in Conns : Drop(c)
       /\ UNCHANGED <<room, mutex, inbox>>

Spec == Init /\ [][Next]_vars

\* The pushes of the store runs: every value to one key, one value to the
\* other keys.
StoreInputs ==
    {[key |-> "foo", value |-> v] : v \in Values}
       \cup {[key |-> k, value |-> "baz"] : k \in Keys \ {"foo"}}

\* The store under every push and every query, sent through a single
\* regular connection, with or without a replica sink.
NextStore ==
    \/ /\ \E c \in Conns, input \in StoreInputs, action \in Actions :
             Push(c, input.key, input.value, action)
       /\ UNCHANGED <<room, mutex, inbox>>
    \/ /\ \E c \in Conns, key \in Keys, seq \in Seqs : Get(c, key, seq)
       /\ UNCHANGED <<room, mutex, inbox>>
    \/ /\ \E c \in Conns, nonce \in Nonces : Ping(c, nonce)
       /\ UNCHANGED <<room, mutex, inbox>>
    \/ /\ Connect(1)
       /\ UNCHANGED <<room, mutex, inbox>>
    \/ /\ SetReplicaCallback
       /\ UNCHANGED <<room, mutex, inbox>>

SpecStore == Init /\ [][NextStore]_vars

\* The dispatch to every kind of subscriber, live or dropped, of pushes of
\* one value to one key.
NextDispatch ==
    \/ /\ \E c \in Conns, action \in Actions : Push(c, "foo", "baz", action)
       /\ UNCHANGED <<room, mutex, inbox>>
    \/ /\ \E c \in Conns : Get(c, "foo", 0)
       /\ UNCHANGED <<room, mutex, inbox>>
    \/ /\ Connect(MaxConn)
       /\ UNCHANGED <<room, mutex, inbox>>
    \/ /\ ConnectDebug(MaxConn)
       /\ UNCHANGED <<room, mutex, inbox>>
    \/ /\ ConnectReplica(MaxConn)
       /\ UNCHANGED <<room, mutex, inbox>>
    \/ /\ SetReplicaCallback
       /\ UNCHANGED <<room, mutex, inbox>>
    \/ /\ \E c \in Conns : Drop(c)
       /\ UNCHANGED <<room, mutex, inbox>>

SpecDispatch == Init /\ [][NextDispatch]_vars

\* The pushes of the debug runs: every action on one key, Append on the
\* other keys.
DebugInputs ==
    {[key |-> "foo", action |-> a] : a \in Actions}
       \cup {[key |-> k, action |-> ActionAppend] : k \in Keys \ {"foo"}}

\* Debug subscribers that come and go while one value is pushed to the
\* keys, the pushes being sent through the debug connections themselves.
NextDebug ==
    \/ /\ \E c \in Conns, input \in DebugInputs : Push(c, input.key, "baz", input.action)
       /\ UNCHANGED <<room, mutex, inbox>>
    \/ /\ ConnectDebug(MaxConn)
       /\ UNCHANGED <<room, mutex, inbox>>
    \/ /\ \E c \in Conns : Drop(c)
       /\ UNCHANGED <<room, mutex, inbox>>

SpecDebug == Init /\ [][NextDebug]_vars

(* ------------------------- callers and the Mutex ----------------------- *)
\* The callback invocations of the events tr, in program order.
Callbacks(tr) == SelectSeq(tr, LAMBDA e : e.ev = "call")

\* Variant: lock() returns while another caller holds the guard.
Unlocked_Free == TRUE

\* inner.lock() returns: no caller holds the guard.
Unlocked == \A t \in Threads : mutex[t].call = "none"

\* Database::send_message(Push) by caller t through connection c: the guard
\* is taken and the instruction applied; the callbacks follow, one a step.
LockPush(t, c, key, value, action) ==
    /\ Unlocked
    /\ mutex[t].call = "none"
    /\ Push(c, key, value, action)
    /\ mutex' = [mutex EXCEPT ![t] = [call |-> "send_message", conn |-> c,
                                      pending |-> Callbacks(trace')]]
    /\ UNCHANGED inbox

\* Database::connect by caller t: the guard is taken and the handle pushed.
LockConnect(t) ==
    /\ Unlocked
    /\ mutex[t].call = "none"
    /\ Connect(MaxConn)
    /\ mutex' = [mutex EXCEPT ![t] = [call |-> "connect", conn |-> NewConn,
                                      pending |-> <<>>]]
    /\ UNCHANGED inbox

\* Database::connect_debug by caller t: the handle is created, the guard
\* taken and the entries of Store::dump read; the Init callbacks follow, one
\* a step, and the handle is registered when the guard is released.
LockConnectDebug(t) ==
    /\ Unlocked
    /\ mutex[t].call = "none"
    /\ Room(MaxConn)
    /\ Created(NewConn, "debug")
    /\ \E o \in Orders(DOMAIN dump(store)) :
          trace' = [i \in DOMAIN o |-> Call("register", NewConn, MsgInit(o[i], dump(store)[o[i]]))]
    /\ op' = [name |-> "connect_debug", conn |-> NewConn, msg |-> None]
    /\ mutex' = [mutex EXCEPT ![t] = [call |-> "connect_debug", conn |-> NewConn,
                                      pending |-> trace']]
    /\ UNCHANGED <<store, connections, debug_connections, replica_connections,
                   replica_callback, history, inbox>>

\* The next callback of the method caller t runs is invoked.
Callback(t) ==
    /\ mutex[t].call # "none"
    /\ mutex[t].pending # <<>>
    /\ inbox' = IF Head(mutex[t].pending).group = "sink" THEN inbox
                ELSE [inbox EXCEPT ![Head(mutex[t].pending).conn] =
                         Append(@, [msg |-> Head(mutex[t].pending).msg,
                                    group |-> Head(mutex[t].pending).group,
                                    by |-> t])]
    /\ mutex' = [mutex EXCEPT ![t].pending = Tail(@)]
    /\ UNCHANGED <<store, connections, debug_connections, replica_connections,
                   replica_callback, alive, kind, op, trace, response, history>>

\* The method caller t runs returns and the guard is dropped; connect_debug
\* pushes its handle into debug_connections just before.
Unlock(t) ==
    /\ mutex[t].call # "none"
    /\ mutex[t].pending = <<>>
    /\ debug_connections' = IF mutex[t].call = "connect_debug"
                            THEN Append(debug_connections, mutex[t].conn)
                            ELSE debug_connections
    /\ mutex' = [mutex EXCEPT ![t] = Outside]
    /\ UNCHANGED <<store, connections, replica_connections, replica_callback, alive,
                   kind, op, trace, response, history, inbox>>

\* The pushes of the callers: an ephemeral and two durable actions on one key.
LockActions == {ActionRelay, ActionAppend, ActionReplace}

\* Callers that use send_message, connect and connect_debug concurrently.
NextLock ==
    \/ /\ \E t \in Threads, c \in Conns, action \in LockActions :
             LockPush(t, c, "foo", "baz", action)
       /\ UNCHANGED room
    \/ /\ \E t \in Threads : LockConnect(t)
       /\ UNCHANGED room
    \/ /\ \E t \in Threads : LockConnectDebug(t)
       /\ UNCHANGED room
    \/ /\ \E t \in Threads : Callback(t)
       /\ UNCHANGED room
    \/ /\ \E t \in Threads : Unlock(t)
       /\ UNCHANGED room

SpecLock == Init /\ [][NextLock]_vars

(* ------------------------- DbRoom: the handlers ------------------------ *)
\* The connections owned by the read loop of a subscriber stream.
Streams == {c \in alive : kind[c] \in {"regular", "debug"}}

\* The room holds a Database and no POST handler is between its
\* send_message and its return.
Idle == room.loaded /\ ~room.sent

\* The replica callback the room installed has run: the room is dirty.
Dirtied(tr) == \E i \in DOMAIN tr : tr[i].group = "sink"

\* Connection::send_message: the message goes to DatabaseInner::send_message.
Send(c, msg) ==
    \/ msg.type = "Push" /\ Push(c, msg.key, msg.value, msg.action)
    \/ msg.type = "Get" /\ Get(c, msg.key, msg.seq)
    \/ msg.type = "Ping" /\ Ping(c, msg.nonce)

\* PersistedDb::get_db on a room without a Database: the store is loaded,
\* the replica callback installed and the first alarm set.
ColdStart ==
    /\ ~room.loaded
    /\ store' = load(room.persisted)
    /\ replica_callback' = TRUE
    /\ trace' = <<>>
    /\ response' = None
    /\ op' = [name |-> "get_db", conn |-> 0, msg |-> None]
    /\ room' = [room EXCEPT !.loaded = TRUE, !.dirty = FALSE, !.alarm = "armed",
                            !.steps = <<"load", "set_alarm">>]
    /\ UNCHANGED <<connections, debug_connections, replica_connections, alive, kind,
                   history>>

\* GET /connect: a regular subscriber stream is attached.
RoomConnect ==
    /\ Idle
    /\ Connect(MaxConn)
    /\ room' = [room EXCEPT !.steps = <<"connect">>]

\* GET /connect?debug=1: a debug subscriber stream is attached, in these
\* runs to a room without another connection.
RoomConnectDebug ==
    /\ Idle
    /\ ConnectDebug(1)
    /\ room' = [room EXCEPT !.steps = <<"connect_debug">>]

\* A frame of stream c decodes to msg: the alarm is bumped, then the message
\* is handed to the Database.
Frame(c, msg) ==
    /\ Idle
    /\ c \in Streams
    /\ Send(c, msg)
    /\ room' = [room EXCEPT !.alarm = "armed", !.dirty = @ \/ Dirtied(trace'),
                            !.steps = <<"bump_alarm", "send_message">>]

\* Variant: a frame that does not decode ends the read loop.
BadFrame_Breaks(c) ==
    /\ Idle
    /\ c \in Streams
    /\ trace' = <<[ev |-> "send", group |-> "error", conn |-> c, msg |-> MsgError]>>
    /\ response' = None
    /\ op' = [name |-> "bad_frame", conn |-> c, msg |-> None]
    /\ room' = [room EXCEPT !.steps = <<"error", "break">>]
    /\ alive' = alive \ {c}
    /\ kind' = [kind EXCEPT ![c] = "dropped"]
    /\ UNCHANGED <<store, connections, debug_connections, replica_connections,
                   replica_callback, history>>

\* A frame of stream c does not decode: Error is written to the stream.
BadFrame(c) ==
    /\ Idle
    /\ c \in Streams
    /\ trace' = <<[ev |-> "send", group |-> "error", conn |-> c, msg |-> MsgError]>>
    /\ response' = None
    /\ op' = [name |-> "bad_frame", conn |-> c, msg |-> None]
    /\ room' = [room EXCEPT !.steps = <<"error">>]
    /\ UNCHANGED <<store, connections, debug_connections, replica_connections,
                   replica_callback, alive, kind, history>>

\* Stream c delivers Close: the read loop ends and drops the Connection.
Close(c) ==
    /\ Idle
    /\ c \in Streams
    /\ Drop(c)
    /\ room' = [room EXCEPT !.steps = <<"break">>]

\* POST /send, up to the await of the request body: the transient
\* connection, whose callback discards what it is given, is registered.
PostConnect ==
    /\ Idle
    /\ room.post = 0
    /\ Room(MaxConn)
    /\ Created(NewConn, "transient")
    /\ connections' = Append(connections, NewConn)
    /\ trace' = <<>>
    /\ op' = [name |-> "connect", conn |-> NewConn, msg |-> None]
    /\ room' = [room EXCEPT !.post = NewConn, !.steps = <<"connect">>]
    /\ UNCHANGED <<store, debug_connections, replica_connections, replica_callback,
                   history>>

\* POST /send, the body decoded to msg: send_message through the transient
\* connection; its return value becomes the body of the response.
PostSend(msg) ==
    /\ Idle
    /\ room.post # 0
    /\ Send(room.post, msg)
    /\ room' = [room EXCEPT !.sent = TRUE, !.body = response',
                            !.dirty = @ \/ Dirtied(trace'),
                            !.steps = <<"send_message", "respond">>]

\* Variant: the transient connection outlives the request.
PostEnd_Keeps ==
    /\ room.loaded
    /\ room.post # 0
    /\ op' = [name |-> "post_end", conn |-> room.post, msg |-> None]
    /\ room' = [room EXCEPT !.post = 0, !.sent = FALSE,
                            !.body = IF room.sent THEN @ ELSE Some(HttpError),
                            !.steps = <<"return">>]
    /\ UNCHANGED <<store, connections, debug_connections, replica_connections,
                   replica_callback, alive, kind, trace, response, history>>

\* POST /send returns, after send_message or because the body did not
\* decode: the transient connection is dropped.
PostEnd ==
    /\ room.loaded
    /\ room.post # 0
    /\ alive' = alive \ {room.post}
    /\ kind' = [kind EXCEPT ![room.post] = "dropped"]
    /\ op' = [name |-> "post_end", conn |-> room.post, msg |-> None]
    /\ room' = [room EXCEPT !.post = 0, !.sent = FALSE,
                            !.body = IF room.sent THEN @ ELSE Some(HttpError),
                            !.steps = <<"return">>]
    /\ UNCHANGED <<store, connections, debug_connections, replica_connections,
                   replica_callback, trace, response, history>>

\* The inactivity window elapses without a bump: the alarm is due.
Tick ==
    /\ Idle
    /\ room.alarm = "armed"
    /\ trace' = <<>>
    /\ response' = None
    /\ op' = [name |-> "tick", conn |-> 0, msg |-> None]
    /\ room' = [room EXCEPT !.alarm = "due", !.steps = <<>>]
    /\ UNCHANGED <<store, connections, debug_connections, replica_connections,
                   replica_callback, alive, kind, history>>

\* Variant: the snapshot is written only if the room is dirty.
Snapshot_IfDirty(st) == IF room.dirty THEN save(st) ELSE room.persisted

\* PersistedDb::cleanup persists the snapshot of the store.
Snapshot(st) == save(st)

\* DbRoom::alarm: the store is persisted and the Database released, the
\* streams still attached being torn down with it by the host.
Alarm ==
    /\ Idle
    /\ room.alarm = "due"
    /\ room.post = 0
    /\ room' = [room EXCEPT !.loaded = FALSE, !.persisted = Snapshot(store),
                            !.dirty = FALSE, !.alarm = "off",
                            !.steps = <<"save", "release">>,
                            !.orphan = NoOrphan]
    /\ store' = EmptyStore
    /\ connections' = <<>>
    /\ debug_connections' = <<>>
    /\ replica_connections' = <<>>
    /\ replica_callback' = FALSE
    /\ alive' = {}
    /\ kind' = [c \in Conns |-> "none"]
    /\ trace' = <<>>
    /\ response' = None
    /\ op' = [name |-> "alarm", conn |-> 0, msg |-> None]
    /\ UNCHANGED history

\* The streams whose task holds a Database the room has released.
Orphans == {c \in alive : kind[c] = "orphan"}

\* DbRoom::alarm while the host keeps the room's streams open: the store is
\* persisted and the room lets go of the Database, which the tasks spawned
\* by connect keep alive through their clone (db) and their Connection; the
\* handler closes no stream. One released Database is kept at a time.
AlarmKeeps ==
    /\ Idle
    /\ room.alarm = "due"
    /\ room.post = 0
    /\ Streams # {}
    /\ Orphans = {}
    /\ room' = [room EXCEPT !.loaded = FALSE, !.persisted = Snapshot(store),
                            !.dirty = FALSE, !.alarm = "off",
                            !.steps = <<"save", "release">>,
                            !.orphan = [store |-> store,
                                        connections |-> connections,
                                        debug_connections |-> debug_connections]]
    /\ store' = EmptyStore
    /\ connections' = <<>>
    /\ debug_connections' = <<>>
    /\ replica_connections' = <<>>
    /\ replica_callback' = FALSE
    /\ kind' = [c \in Conns |-> IF c \in Streams THEN "orphan" ELSE "none"]
    /\ alive' = Streams
    /\ trace' = <<>>
    /\ response' = None
    /\ op' = [name |-> "alarm", conn |-> 0, msg |-> None]
    /\ UNCHANGED history

\* The handles of list whose stream is still attached to the released
\* Database.
Held(list) == SelectSeq(list, LAMBDA c : c \in Orphans)

\* What send_message does in the released Database db for instruction, the
\* store after it being st: the debug loop, the callback the room installed
\* at its cold start, the regular loop.
OrphanTrace(db, st, instruction, resp) ==
    <<EvApply(instruction)>>
    \o (IF mutates(instruction)
        THEN Dispatch(Held(db.debug_connections), "debug",
                      MsgInit(instruction.key, get(st, instruction.key, 0)))
        ELSE IF instruction.broadcast.some
        THEN Dispatch(Held(db.debug_connections), "debug",
                      MsgPush(instruction.key, instruction.broadcast.val.value,
                              instruction.broadcast.val.seq))
        ELSE <<>>)
    \o (IF mutates(instruction) THEN <<Call("sink", 0, instruction)>> ELSE <<>>)
    \o (IF instruction.broadcast.some
        THEN Dispatch(Held(db.connections), "regular",
                      MsgPush(instruction.key, instruction.broadcast.val.value,
                              instruction.broadcast.val.seq))
        ELSE <<>>)
    \o <<EvReturn(resp)>>

\* A frame of a stream attached before the alarm decodes to a Push: the
\* alarm is bumped, then the message is handed to the Database the task
\* holds, which is the released one.
OrphanFrame(c, msg) ==
    /\ Idle
    /\ c \in Orphans
    /\ msg.type = "Push"
    /\ convert_to_instruction(room.orphan.store, msg.key, msg.value, msg.action).seq
          <= MaxSeq
    /\ response' = PushResponse(msg.key,
                                stream_size(Applied(room.orphan.store, msg.key, msg.value,
                                                    msg.action), msg.key))
    /\ trace' = OrphanTrace(room.orphan,
                            Applied(room.orphan.store, msg.key, msg.value, msg.action),
                            convert_to_instruction(room.orphan.store, msg.key, msg.value,
                                                   msg.action),
                            response')
    /\ op' = [name |-> "send_message", conn |-> c, msg |-> msg]
    /\ room' = [room EXCEPT !.alarm = "armed", !.dirty = @ \/ Dirtied(trace'),
                            !.steps = <<"bump_alarm", "send_message">>,
                            !.orphan = [store |-> Applied(room.orphan.store, msg.key,
                                                          msg.value, msg.action),
                                        connections |-> Held(room.orphan.connections),
                                        debug_connections |->
                                            Held(room.orphan.debug_connections)]]
    /\ UNCHANGED <<store, connections, debug_connections, replica_connections,
                   replica_callback, alive, kind, history>>

\* The messages the room runs send: an ephemeral and a durable push of one
\* value to one key.
RoomMessages == {ToPush("foo", "baz", a) : a \in {ActionRelay, ActionAppend}}

\* A room through cold starts, subscriber streams, POST requests and alarms.
NextRoom ==
    \/ /\ ColdStart
       /\ UNCHANGED <<mutex, inbox>>
    \/ /\ RoomConnect
       /\ UNCHANGED <<mutex, inbox>>
    \/ /\ RoomConnectDebug
       /\ UNCHANGED <<mutex, inbox>>
    \/ /\ \E c \in Conns, msg \in RoomMessages : Frame(c, msg)
       /\ UNCHANGED <<mutex, inbox>>
    \/ /\ \E c \in Conns : BadFrame(c)
       /\ UNCHANGED <<mutex, inbox>>
    \/ /\ \E c \in Conns : Close(c)
       /\ UNCHANGED <<mutex, inbox>>
    \/ /\ PostConnect
       /\ UNCHANGED <<mutex, inbox>>
    \/ /\ \E msg \in RoomMessages : PostSend(msg)
       /\ UNCHANGED <<mutex, inbox>>
    \/ /\ PostEnd
       /\ UNCHANGED <<mutex, inbox>>
    \/ /\ Tick
       /\ UNCHANGED <<mutex, inbox>>
    \/ /\ Alarm
       /\ UNCHANGED <<mutex, inbox>>

SpecRoom == Init /\ [][NextRoom]_vars

\* A room whose regular streams may outlive the alarm: cold starts, streams
\* that stay open, frames, and alarms after which the host either tears the
\* streams down or keeps them open.
NextOrphan ==
    \/ /\ ColdStart
       /\ UNCHANGED <<mutex, inbox>>
    \/ /\ RoomConnect
       /\ UNCHANGED <<mutex, inbox>>
    \/ /\ \E c \in Conns, msg \in RoomMessages : Frame(c, msg)
       /\ UNCHANGED <<mutex, inbox>>
    \/ /\ Tick
       /\ UNCHANGED <<mutex, inbox>>
    \/ /\ Alarm
       /\ UNCHANGED <<mutex, inbox>>
    \/ /\ AlarmKeeps
       /\ UNCHANGED <<mutex, inbox>>
    \/ /\ \E c \in Conns, msg \in RoomMessages : OrphanFrame(c, msg)
       /\ UNCHANGED <<mutex, inbox>>

SpecOrphan == Init /\ [][NextOrphan]_vars

(* ======================= properties of the Database ==================== *)
IsPush == op.name = "send_message" /\ op.msg.type = "Push"
IsGet == op.name = "send_message" /\ op.msg.type = "Get"
IsPing == op.name = "send_message" /\ op.msg.type = "Ping"

Counter(st, key) == ValueLog(st, key).seq

\* The callback invocations among the events tr.
Calls(tr) == {i \in DOMAIN tr : tr[i].ev = "call"}

\* Position of an event in the documented dispatch order, a callback being
\* placed by the kind of subscriber it belongs to.
Rank(e) ==
    CASE e.ev = "apply" -> 0
      [] e.ev = "return" -> 5
      [] e.ev = "call" /\ e.group = "sink" -> 3
      [] e.ev = "call" /\ e.group # "sink" /\ kind[e.conn] = "replica" -> 1
      [] e.ev = "call" /\ e.group # "sink" /\ kind[e.conn] = "debug" -> 2
      [] OTHER -> 4

\* Position of an event by the loop of send_message that produced it.
StageRank(e) ==
    CASE e.group = "apply" -> 0
      [] e.group = "replica" -> 1
      [] e.group = "debug" -> 2
      [] e.group = "sink" -> 3
      [] e.group = "regular" -> 4
      [] OTHER -> 5

\* C1: within one Push the instruction is applied first, then the callbacks
\* of the replica subscribers fire, then those of the debug subscribers, then
\* the replica sink, then the regular subscribers, and the response is
\* returned last; no callback of a later group fires before one of an
\* earlier group.
C1_DispatchOrder ==
    IsPush =>
        /\ trace[1].ev = "apply"
        /\ trace[Len(trace)].ev = "return"
        /\ \A i, j \in DOMAIN trace : i < j => Rank(trace[i]) <= Rank(trace[j])

\* The order of the loops of send_message themselves: replica list, debug
\* list, sink, regular list, return.
StageOrder ==
    IsPush =>
        /\ trace[1].ev = "apply"
        /\ trace[Len(trace)].ev = "return"
        /\ \A i, j \in DOMAIN trace : i < j => StageRank(trace[i]) <= StageRank(trace[j])

\* A Push reached a debug subscriber and a regular subscriber and the sink.
StageOrderWitness ==
    /\ IsPush
    /\ \E i, j, k \in Calls(trace) :
          /\ trace[i].group = "debug" /\ trace[j].group = "sink"
          /\ trace[k].group = "regular"

\* The Push notifications for key that the events tr deliver to regular
\* subscribers.
Notified(tr, kd, key) ==
    {i \in Calls(tr) : /\ tr[i].group # "sink"
                       /\ kd[tr[i].conn] = "regular"
                       /\ tr[i].msg.type = "Push"
                       /\ tr[i].msg.key = key}

NotifiedSeqs(tr, kd, key) == {tr[i].msg.seq : i \in Notified(tr, kd, key)}

PushOf(o, type) ==
    o.name = "send_message" /\ o.msg.type = "Push" /\ o.msg.action.type = type

Broadcasting(o) == PushOf(o, "Relay") \/ PushOf(o, "Append") \/ PushOf(o, "Replace")

\* The stream of n appended values: the i-th value carries seq i.
AppendedStream(vals) == [i \in 1..Len(vals) |-> SequenceValue(i, vals[i])]

\* C3: after n Append pushes (n >= 0) to a key that had no prior pushes,
\* Get{key, seq: 0} returns exactly those n values in insertion order with
\* the seqs 1..n.
C3_AppendOnly ==
    /\ \A key \in Keys :
          history[key].onlyAppends =>
             GetResponse(store, key, 0) =
                Some(MsgInit(key, AppendedStream(history[key].appended)))
    /\ (IsGet /\ op.msg.seq = 0 /\ history[op.msg.key].onlyAppends) =>
          response = Some(MsgInit(op.msg.key, AppendedStream(history[op.msg.key].appended)))

\* A Get{key, 0} after two Appends of different values to the key.
C3_Witness ==
    /\ IsGet /\ op.msg.seq = 0
    /\ history[op.msg.key].onlyAppends
    /\ Len(history[op.msg.key].appended) = 2
    /\ history[op.msg.key].appended[1] # history[op.msg.key].appended[2]
    /\ Len(response.val.data) = 2

Stream(st, key) == ValueLog(st, key).values

StrictlyAscending(values) ==
    \A i, j \in DOMAIN values : i < j => values[i].seq < values[j].seq

\* C5: after Compact{seq: S} with value V on a key, Get{key, 0} returns
\* exactly the previously stored entries with seq > S after V as the single
\* entry at seq S, in ascending seq order; every entry with seq < S, and the
\* previous entry at S, is gone.
C5_Compact ==
    [][PushOf(op', "Compact") =>
          LET key == op'.msg.key
              S == op'.msg.action.seq
              V == op'.msg.value
              old == Stream(store, key)
              new == GetResponse(store', key, 0).val.data
          IN  /\ new[1] = SequenceValue(S, V)
              /\ StrictlyAscending(new)
              /\ \A i \in DOMAIN new : i > 1 => new[i] \in Range(old) /\ new[i].seq > S
              /\ \A i \in DOMAIN old : old[i].seq > S => old[i] \in Range(new)]_vars

\* A Compact that dropped, replaced and kept entries: the compacted stream
\* starts with the new value and still holds a later entry.
C5_Witness ==
    /\ PushOf(op, "Compact")
    /\ op.msg.action.seq >= 1
    /\ Len(Stream(store, op.msg.key)) >= 2
    /\ Stream(store, op.msg.key)[1].value # Stream(store, op.msg.key)[2].value

\* C6: after a Replace push the stream of the key holds exactly one entry,
\* whose seq is the previous counter plus one and whose value is the pushed
\* value, whatever it held before; a Get{key, 0} sent afterwards, by a
\* connection registered after the push as well, returns exactly that entry.
C6_Replace ==
    [][/\ PushOf(op', "Replace") =>
            LET key == op'.msg.key
                entry == SequenceValue(Counter(store, key) + 1, op'.msg.value)
            IN  /\ Stream(store', key) = <<entry>>
                /\ history'[key].replaced = Some([entry |-> entry, before |-> alive])
       /\ (op'.name = "send_message" /\ op'.msg.type = "Get" /\ op'.msg.seq = 0
              /\ history'[op'.msg.key].replaced.some) =>
            response' = Some(MsgInit(op'.msg.key,
                                     <<history'[op'.msg.key].replaced.val.entry>>))]_vars

\* A connection registered after a Replace, which left a seq of two or
\* more, has sent Get{key, 0}.
C6_Witness ==
    /\ IsGet /\ op.msg.seq = 0
    /\ history[op.msg.key].replaced.some
    /\ op.conn \notin history[op.msg.key].replaced.val.before
    /\ history[op.msg.key].replaced.val.entry.seq >= 2
    /\ response = Some(MsgInit(op.msg.key, <<history[op.msg.key].replaced.val.entry>>))

\* C7: for every key the stored entries have strictly increasing seq, each
\* at most the key's counter, after every operation; a Compact whose seq is
\* above the counter raises the counter to that seq.
C7_StreamOrdered ==
    [][/\ \A key \in DOMAIN store' :
            /\ StrictlyAscending(store'[key].values)
            /\ \A i \in DOMAIN store'[key].values :
                  store'[key].values[i].seq <= store'[key].seq
       /\ (PushOf(op', "Compact") /\ op'.msg.action.seq > Counter(store, op'.msg.key)) =>
            Counter(store', op'.msg.key) = op'.msg.action.seq
       /\ (PushOf(op', "Compact") /\ op'.msg.action.seq <= Counter(store, op'.msg.key)) =>
            Counter(store', op'.msg.key) = Counter(store, op'.msg.key)]_vars

\* A Compact of a seq above the counter has raised the counter to its seq
\* and left its value as the only entry.
C7_Witness ==
    /\ PushOf(op, "Compact")
    /\ history[op.msg.key].raised
    /\ op.msg.action.seq >= 2
    /\ Counter(store, op.msg.key) = op.msg.action.seq
    /\ Stream(store, op.msg.key) = <<SequenceValue(op.msg.action.seq, op.msg.value)>>

\* C8: the response of a Push, whatever its action, is StreamSize{key, size}
\* exactly when the stream of the key holds more than one entry after the
\* instruction was applied, size being that number of entries; otherwise the
\* Push returns nothing.
C8_StreamSize ==
    IsPush =>
        /\ response.some <=> Len(Stream(store, op.msg.key)) > 1
        /\ response.some =>
              response.val = MsgStreamSize(op.msg.key, Len(Stream(store, op.msg.key)))
        /\ trace[Len(trace)] = EvReturn(response)

\* A Relay on a key of two durable entries returns StreamSize.
C8_Witness ==
    /\ PushOf(op, "Relay")
    /\ response.some
    /\ response.val.size = 2

\* The callback invocations of connection c among the events tr.
CallsOf(tr, c) == {i \in Calls(tr) : tr[i].group # "sink" /\ tr[i].conn = c}

\* C9: a Relay, Append or Replace push delivers exactly one
\* Push{key, value, seq} to every live regular connection, the pusher
\* included, before send_message returns; a Compact push delivers nothing to
\* a regular connection; registering with connect delivers nothing.
C9_RegularDelivery ==
    /\ (IsPush /\ Broadcasting(op)) =>
          /\ trace[Len(trace)].ev = "return"
          /\ \A c \in Conns :
                kind[c] = "regular" =>
                   /\ Cardinality(CallsOf(trace, c)) = 1
                   /\ \A i \in CallsOf(trace, c) :
                         trace[i].msg = MsgPush(op.msg.key, op.msg.value,
                                                Counter(store, op.msg.key))
    /\ PushOf(op, "Compact") =>
          \A c \in Conns : kind[c] = "regular" => CallsOf(trace, c) = {}
    /\ op.name = "connect" => Calls(trace) = {}

\* A Relay sent through one of two live regular connections reached the
\* pusher.
C9_Witness ==
    /\ PushOf(op, "Relay")
    /\ Cardinality({c \in Conns : kind[c] = "regular"}) = 2
    /\ kind[op.conn] = "regular"
    /\ CallsOf(trace, op.conn) # {}

\* C10: Get and Ping are read-only. Get{key, seq} returns Init{key, data}
\* with the stored entries of the key of seq >= the requested seq in
\* ascending order, empty for an unknown key, which is not created;
\* Ping{nonce} returns Pong of the same nonce; neither changes the store or a
\* subscriber list, nor invokes a subscriber callback or the replica sink.
C10_ReadOnly ==
    [][/\ (op'.name = "send_message" /\ op'.msg.type = "Get") =>
            LET key == op'.msg.key
                data == response'.val.data
            IN  /\ response'.some
                /\ response'.val.type = "Init" /\ response'.val.key = key
                /\ StrictlyAscending(data)
                /\ \A i \in DOMAIN data :
                      data[i] \in Range(Stream(store, key)) /\ data[i].seq >= op'.msg.seq
                /\ \A i \in DOMAIN Stream(store, key) :
                      Stream(store, key)[i].seq >= op'.msg.seq =>
                         Stream(store, key)[i] \in Range(data)
                /\ key \notin DOMAIN store => data = <<>>
       /\ (op'.name = "send_message" /\ op'.msg.type = "Ping") =>
            response' = Some(MsgPong(op'.msg.nonce))
       /\ (op'.name = "send_message" /\ op'.msg.type \in {"Get", "Ping"}) =>
            /\ store' = store
            /\ DOMAIN store' = DOMAIN store
            /\ connections' = connections
            /\ debug_connections' = debug_connections
            /\ replica_connections' = replica_connections
            /\ replica_callback' = replica_callback
            /\ Calls(trace') = {}
            /\ trace' = <<EvReturn(response')>>]_vars

\* A Get of a seq above the first stored one, sent while a subscriber and
\* the replica sink were registered: it returned a proper, non-empty part of
\* the stream.
C10_Witness ==
    /\ IsGet
    /\ replica_callback
    /\ connections # <<>>
    /\ response.val.data # <<>>
    /\ Len(response.val.data) < Len(Stream(store, op.msg.key))

\* The invocations of the replica sink among the events tr.
SinkCalls(tr) == {i \in Calls(tr) : tr[i].group = "sink"}

\* C11: the replica sink is invoked exactly once, with the applied
\* instruction, by every Append, Replace and Compact push made while a sink
\* is installed; a Relay push, a Get, a Ping and a connect never invoke it,
\* and no push invokes it while none is installed.
C11_ReplicaSink ==
    [][/\ (IsPush' /\ ~PushOf(op', "Relay") /\ replica_callback) =>
            /\ Cardinality(SinkCalls(trace')) = 1
            /\ \A i \in SinkCalls(trace') :
                  trace'[i].msg = convert_to_instruction(store, op'.msg.key, op'.msg.value,
                                                         op'.msg.action)
       /\ (~IsPush' \/ PushOf(op', "Relay") \/ ~replica_callback) =>
            SinkCalls(trace') = {}]_vars

\* A Compact pushed while the sink is installed reached the sink.
C11_Witness ==
    /\ PushOf(op, "Compact")
    /\ replica_callback
    /\ \E i \in SinkCalls(trace) :
          trace[i].msg.action = op.msg.action /\ trace[i].msg.value = op.msg.value

\* C12: once the last strong reference to a connection is dropped, no later
\* Push invokes its callback, whatever list holds its handle: every callback
\* a Push invokes belongs to a connection that is alive, and the push that
\* directly follows a drop invokes nothing of the dropped connection.
C12_NoCallbackAfterDrop ==
    [][IsPush' =>
          /\ \A i \in Calls(trace') :
                trace'[i].group # "sink" => trace'[i].conn \in alive
          /\ \A c \in Conns \ alive : CallsOf(trace', c) = {}
          /\ op.name = "drop" => CallsOf(trace', op.conn) = {}]_vars

\* A push that broadcasts was made through a regular connection while
\* another connection was dropped: the pusher was called, the dropped one
\* was not.
C12_Witness ==
    /\ IsPush /\ Broadcasting(op)
    /\ CallsOf(trace, op.conn) # {}
    /\ \E c \in Conns :
          /\ kind[c] = "dropped"
          /\ CallsOf(trace, c) = {}

\* C13: a debug subscriber, whenever it registers, receives during
\* connect_debug, before it is in any subscriber list, exactly one
\* Init{key, data} for each key present in the store, data being the durable
\* stream the key holds, and nothing else: nothing for an absent key.
C13_DebugInit ==
    [][op'.name = "connect_debug" =>
          /\ op'.conn \notin Range(debug_connections) \cup Range(connections)
                               \cup Range(replica_connections)
          /\ op'.conn \in Range(debug_connections')
          /\ Len(trace') = Cardinality(DOMAIN store)
          /\ \A i \in DOMAIN trace' :
                /\ trace'[i].ev = "call" /\ trace'[i].conn = op'.conn
                /\ trace'[i].msg.type = "Init"
                /\ trace'[i].msg.key \in DOMAIN store
                /\ trace'[i].msg.data = Stream(store, trace'[i].msg.key)
          /\ \A key \in DOMAIN store :
                Cardinality({i \in DOMAIN trace' : trace'[i].msg.key = key}) = 1]_vars

\* A debug subscriber registered while the store held two keys, one of them
\* with two entries and the other with a different stream.
C13_Witness ==
    /\ op.name = "connect_debug"
    /\ Len(trace) = 2
    /\ trace[1].msg.data # trace[2].msg.data
    /\ \E i \in DOMAIN trace : Len(trace[i].msg.data) = 2

\* C14: every Push gives each live debug subscriber exactly one message:
\* after an Append, a Replace or a Compact an Init{key, data} whose data is
\* the whole stream of the key as the instruction left it, after a Relay the
\* Push{key, value, seq} the regular subscribers receive.
C14_DebugPerPush ==
    IsPush =>
        \A c \in Conns :
           kind[c] = "debug" =>
              /\ Cardinality(CallsOf(trace, c)) = 1
              /\ \A i \in CallsOf(trace, c) :
                    IF PushOf(op, "Relay")
                    THEN /\ trace[i].msg = MsgPush(op.msg.key, op.msg.value,
                                                   Counter(store, op.msg.key))
                         /\ \A j \in Calls(trace) :
                               trace[j].group = "regular" => trace[j].msg = trace[i].msg
                    ELSE trace[i].msg = MsgInit(op.msg.key, Stream(store, op.msg.key))

\* A Relay reached a debug subscriber and a regular subscriber.
C14_Witness ==
    /\ PushOf(op, "Relay")
    /\ \E c, d \in Conns :
          /\ kind[c] = "debug" /\ kind[d] = "regular"
          /\ CallsOf(trace, c) # {} /\ CallsOf(trace, d) # {}

\* C15: a connection created by connect_replica receives one
\* ReplicaInstruction(InitInstruction(store)) when it registers and, while it
\* is alive, exactly one ReplicaInstruction(StoreInstruction(i)) for every
\* later Push, i being the instruction that was applied.
C15_ReplicaFeed ==
    /\ op.name = "connect_replica" =>
          trace = <<Call("register", op.conn, MsgReplicaInit(store))>>
    /\ IsPush =>
          \A c \in Conns :
             kind[c] = "replica" =>
                /\ Cardinality(CallsOf(trace, c)) = 1
                /\ \A i \in CallsOf(trace, c) :
                      /\ trace[i].msg.type = "ReplicaInstruction"
                      /\ trace[i].msg = MsgReplicaStore(trace[1].msg)

\* The registration half of C15 alone: connect_replica delivers the snapshot.
ReplicaRegistration ==
    op.name = "connect_replica" =>
        trace = <<Call("register", op.conn, MsgReplicaInit(store))>>

\* C20: the first Push after a connection was dropped, whatever its action,
\* removes the dead handle from the list it was registered in: when a Push
\* has completed, no subscriber list holds the handle of a dropped
\* connection.
C20_PrunedAfterPush ==
    IsPush =>
        /\ Range(connections) \subseteq alive
        /\ Range(debug_connections) \subseteq alive
        /\ Range(replica_connections) \subseteq alive

\* What the retain loops do achieve: every Push prunes debug_connections, a
\* Relay, Append or Replace prunes connections as well.
PrunedWhereIterated ==
    IsPush =>
        /\ Range(debug_connections) \subseteq alive
        /\ Range(replica_connections) \subseteq alive
        /\ Broadcasting(op) => Range(connections) \subseteq alive

\* The store a replica holds after the events tr when it held st before
\* them: it applies, in the order received, every
\* ReplicaInstruction(StoreInstruction) that was delivered to connection c.
RECURSIVE Replay(_, _, _)
Replay(st, tr, c) ==
    IF tr = <<>> THEN st
    ELSE LET e == Head(tr)
             fed == /\ e.ev = "call" /\ e.group # "sink" /\ e.conn = c
                    /\ e.msg.type = "ReplicaInstruction"
                    /\ e.msg.variant = "StoreInstruction"
         IN  Replay(IF fed THEN apply(st, e.msg.instruction) ELSE st, Tail(tr), c)

\* C21: a replica that starts from the store of its InitInstruction and
\* applies, in the order received, every StoreInstruction delivered to it
\* holds a store equal to the primary's each time send_message returns:
\* connect_replica hands it the primary's store, and a replica equal to the
\* primary before a Push is equal to it after that Push.
C21_ReplicaEqual ==
    [][ /\ op'.name = "connect_replica" =>
              \E i \in DOMAIN trace' :
                 /\ trace'[i].conn = op'.conn
                 /\ trace'[i].msg = MsgReplicaInit(store')
        /\ IsPush' =>
              \A c \in Conns :
                 (c \in alive' /\ kind'[c] = "replica") =>
                    Replay(store, trace', c) = store' ]_vars

\* What the code does achieve: a Push that leaves the primary's store as it
\* was cannot separate the two stores; every Push that changes it does,
\* because no StoreInstruction reaches the replica.
ReplicaEqualUnlessChanged ==
    [][ IsPush' =>
           \A c \in Conns :
              (c \in alive' /\ kind'[c] = "replica") =>
                 (Replay(store, trace', c) = store' <=> store' = store) ]_vars

\* No caller runs a method of the Database.
Quiescent == \A t \in Threads : mutex[t] = Outside

\* The broadcasts connection c was given, in the order it was given them.
Broadcasts(c) == SelectSeq(inbox[c], LAMBDA e : e.group = "regular")

\* Two connections were given the broadcasts they both hold in one order.
SameOrder(c, d) ==
    \A i, j \in DOMAIN Broadcasts(c) :
       \A k, l \in DOMAIN Broadcasts(d) :
          (/\ i < j
           /\ Broadcasts(c)[i].msg = Broadcasts(d)[k].msg
           /\ Broadcasts(c)[j].msg = Broadcasts(d)[l].msg) => k < l

\* C22: with several callers using send_message and the connect operations
\* concurrently, each call runs as one atomic step under the lock: while a
\* Push has a callback still to invoke, the store does not change and no
\* other caller starts, continues or ends a call; so all regular
\* subscribers are given the broadcasts of any two Pushes in the same
\* relative order.
C22_Atomic ==
    [][ /\ \A t \in Threads :
              (mutex[t].call = "send_message" /\ mutex[t].pending # <<>>) =>
                 /\ store' = store
                 /\ \A u \in Threads \ {t} : mutex'[u] = mutex[u]
        /\ \A c, d \in Conns :
              (kind'[c] = "regular" /\ kind'[d] = "regular") => SameOrder(c, d)' ]_vars

\* Both callers have pushed: one regular subscriber has been given a
\* broadcast of either caller's Push, another the first of them, and the
\* second Push is still between its callbacks.
C22_Witness ==
    /\ \E c, d \in Conns :
          /\ c # d /\ kind[c] = "regular" /\ kind[d] = "regular"
          /\ {Broadcasts(c)[i].by : i \in DOMAIN Broadcasts(c)} = Threads
          /\ Len(Broadcasts(d)) = 1
    /\ \E t \in Threads :
          /\ mutex[t].call = "send_message"
          /\ mutex[t].pending # <<>>
          /\ Len(mutex[t].pending) < Len(Callbacks(trace))

\* The stream of key that debug connection c knows: the data of the last
\* Init for key it was given, empty if it was given none.
RECURSIVE LastInit(_, _)
LastInit(box, key) ==
    IF box = <<>> THEN <<>>
    ELSE IF box[Len(box)].msg.type = "Init" /\ box[Len(box)].msg.key = key
    THEN box[Len(box)].msg.data
    ELSE LastInit(SubSeq(box, 1, Len(box) - 1), key)

\* C23: connect_debug takes its per-key Init snapshot and registers the
\* subscriber in one critical section, so every mutating Push is either
\* reflected in the registration Inits or delivered afterwards as its own
\* Init: whenever no call is in progress, a debug subscriber is registered
\* and the last Init it was given for a key is that key's stream.
C23_SnapshotRegistered ==
    Quiescent =>
        \A c \in alive :
           kind[c] = "debug" =>
              /\ c \in Range(debug_connections)
              /\ \A key \in Keys : LastInit(inbox[c], key) = Stream(store, key)

\* A debug subscriber registered after one mutating Push, whose entry its
\* registration Init held, and was given the Init of a later mutating Push.
C23_Witness ==
    /\ Quiescent
    /\ \E c \in alive :
          /\ kind[c] = "debug"
          /\ Len(inbox[c]) >= 2
          /\ inbox[c][1].group = "register" /\ inbox[c][1].msg.data # <<>>
          /\ inbox[c][2].group = "debug" /\ inbox[c][2].msg.type = "Init"
          /\ inbox[c][2].msg.data # inbox[c][1].msg.data

(* ========================= properties of the DbRoom ==================== *)
\* C16: a frame of a subscriber stream that does not decode gets one
\* Error{message} on that same stream and leaves the Database alone:
\* send_message is not called, the store and the subscriber lists do not
\* change, no subscriber callback runs, and the read loop goes on, its
\* connection still alive.
C16_BadFrame ==
    [][op'.name = "bad_frame" =>
          /\ trace' = <<[ev |-> "send", group |-> "error", conn |-> op'.conn,
                         msg |-> MsgError]>>
          /\ Calls(trace') = {}
          /\ \A i \in DOMAIN room'.steps : room'.steps[i] \notin {"send_message", "break"}
          /\ store' = store
          /\ connections' = connections
          /\ debug_connections' = debug_connections
          /\ replica_connections' = replica_connections
          /\ replica_callback' = replica_callback
          /\ alive' = alive /\ kind' = kind
          /\ op'.conn \in alive'
          /\ room'.alarm = room.alarm /\ room'.dirty = room.dirty
          /\ room'.persisted = room.persisted]_vars

\* A frame that does not decode arrived on one of two attached streams while
\* the store held an entry.
C16_Witness ==
    /\ op.name = "bad_frame"
    /\ Cardinality(Streams) = 2
    /\ Len(Stream(store, "foo")) >= 1

\* C17: a Push sent through POST /send is applied to the store and
\* dispatched to the attached subscribers as a Push from a stream is, its
\* response (or null) is the HTTP body, the body holds no broadcast, and the
\* transient connection is not alive once the request has ended, so that no
\* later push calls it.
C17_PostSend ==
    [][/\ (IsPush' /\ kind[op'.conn] = "transient") =>
            LET key == op'.msg.key
            IN  /\ store' = apply(store, convert_to_instruction(store, key, op'.msg.value,
                                                                op'.msg.action))
                /\ room'.body = response'
                /\ response' = IF Len(Stream(store', key)) > 1
                               THEN Some(MsgStreamSize(key, Len(Stream(store', key))))
                               ELSE None
                /\ \A c \in Conns :
                      kind[c] = "regular" =>
                         /\ Cardinality(CallsOf(trace', c)) = 1
                         /\ \A i \in CallsOf(trace', c) :
                               trace'[i].msg = MsgPush(key, op'.msg.value, Counter(store', key))
                /\ \A c \in Conns :
                      kind[c] = "debug" =>
                         /\ Cardinality(CallsOf(trace', c)) = 1
                         /\ \A i \in CallsOf(trace', c) :
                               trace'[i].msg = IF PushOf(op', "Relay")
                                               THEN MsgPush(key, op'.msg.value,
                                                            Counter(store', key))
                                               ELSE MsgInit(key, Stream(store', key))
                /\ Cardinality(SinkCalls(trace')) = IF PushOf(op', "Relay") THEN 0 ELSE 1
       /\ op'.name = "post_end" =>
            /\ op'.conn \notin alive'
            /\ room'.post = 0
            /\ room.sent => room'.body = room.body
       /\ IsPush' => \A c \in Conns \ alive : CallsOf(trace', c) = {}]_vars

\* A POST has ended whose Append reached an attached regular subscriber and
\* was answered with StreamSize; its transient connection is gone.
C17_Witness ==
    /\ op.name = "post_end"
    /\ op.conn \notin alive
    /\ room.body = Some(MsgStreamSize("foo", 2))
    /\ \E c \in Conns :
          /\ kind[c] = "regular"
          /\ \E i \in CallsOf(trace, c) : trace[i].msg.type = "Push"
    /\ \E i \in CallsOf(trace, op.conn) : trace[i].msg.type = "Push"

C19_BumpBeforeSend ==
    op.name = "send_message" =>
        /\ room.alarm = "armed"
        /\ \E i, j \in DOMAIN room.steps :
              i < j /\ room.steps[i] = "bump_alarm" /\ room.steps[j] = "send_message"

\* What the read loop of a stream does: its messages bump the alarm first.
FramesBump ==
    (op.name = "send_message" /\ kind[op.conn] # "transient") =>
        /\ room.alarm = "armed"
        /\ room.steps = <<"bump_alarm", "send_message">>

\* The streams attached to the room: those of the Database the room holds
\* and those whose task holds the released one.
Attached == Streams \cup Orphans

\* The store of the Database stream c operates on.
DatabaseOf(c) == IF c \in Orphans THEN room.orphan.store ELSE store

RegularStream(c) ==
    \/ kind[c] = "regular"
    \/ c \in Orphans /\ c \in Range(room.orphan.connections)

\* The pushed entry reached stream d: as a Push message if d is a regular
\* stream, and in what Get{key, seq: 0} returns from d's Database unless the
\* push was a Relay.
ReachedStream(d) ==
    /\ RegularStream(d) =>
          \E i \in CallsOf(trace, d) :
             trace[i].msg = MsgPush(op.msg.key, op.msg.value,
                                    trace[1].msg.broadcast.val.seq)
    /\ ~PushOf(op, "Relay") =>
          \E j \in DOMAIN get(DatabaseOf(d), op.msg.key, 0) :
             get(DatabaseOf(d), op.msg.key, 0)[j] = trace[1].msg.broadcast.val

\* C24: all streams attached to one room operate on the same Database: a
\* Relay, Append or Replace push accepted from an attached stream is
\* delivered to every other attached regular stream and is visible to a
\* later Get from any of them, also when one stream was attached before an
\* alarm and the other after the following cold start.
C24_OneDatabase ==
    (IsPush /\ Broadcasting(op) /\ op.conn \in Attached) =>
        \A d \in Attached \ {op.conn} : ReachedStream(d)

\* What does hold: the push reaches the streams attached to the Database it
\* was handed to, those attached between the same cold start and alarm.
SameDatabaseReached ==
    (IsPush /\ Broadcasting(op) /\ op.conn \in Attached) =>
        \A d \in Attached :
           (d \in Orphans <=> op.conn \in Orphans) => ReachedStream(d)

\* A stream attached before the alarm and one attached after the following
\* cold start are open together, and one of them has pushed.
OrphanBesideStream ==
    /\ IsPush /\ Broadcasting(op) /\ op.conn \in Attached
    /\ Orphans # {} /\ Streams # {}

====
